---- MODULE Spec2Model ----
(***************************************************************************)
(* A model of the AI Study Buddy backend.  The repository holds four       *)
(* variants of the server:                                                 *)
(*   VA  src/server/server.js 1-336    SQLite through getDatabaseConnection*)
(*   VB  src/server/server.js 337-708  SQLite with the PDF context cache   *)
(*   VC  src/public/script.js          "Final SQLite Version"              *)
(*   VD  src/unnamed/part_000          MySQL pool, "Final Enhanced Version"*)
(* One of them is deployed; `variant` says which.  The database handle is  *)
(* used through the awaitable get/run/all interface the handlers call.     *)
(*                                                                         *)
(* A request is handled in steps, one per segment between two awaits that  *)
(* matter: reqs[s] holds the request in slot s, its position (pc), its     *)
(* locals and, once sent, its response.                                    *)
(*                                                                         *)
(* Texts are sequences of parts (words, or literal pieces of a template);  *)
(* the empty string is a text all of whose parts are "".  Sentiment values *)
(* are in hundredths (0.1 is 10).  Times are in hours.                     *)
(***************************************************************************)
EXTENDS Integers, Sequences, FiniteSets, TLC

VARIABLES variant, apiKey, now, Users, ChatMessages, MoodLogs, nextId,
          userPdfContext, held, reqs

vars == <<variant, apiKey, now, Users, ChatMessages, MoodLogs, nextId,
          userPdfContext, held, reqs>>

durable == <<Users, ChatMessages, MoodLogs, nextId>>

VA == "sqlite_conn"
VB == "sqlite_pdf"
VC == "final_sqlite"
VD == "mysql_pool"
Variants == {VA, VB, VC, VD}

(* ------------------------------ bounds -------------------------------- *)
\* ids ever handed out to ChatMessages rows
MaxRows == 2
\* user rows
MaxUsers == 2
\* tokens a client keeps
MaxHeld == 1
\* the clock stops here
MaxClock == 36
\* one clock step
TickHours == 12
\* polarity words in a row, enough to pass the clamp at 1
ClampWords == 11
\* neutral words in a row, enough to pass magnitude 1 when 0.05 a word
LengthWords == 21
\* ids of ChatMessages where two turns are told
MaxHistory == 4

(* --------------------------- program constants ------------------------ *)
\* jwt.sign(..., { expiresIn: '24h' })
ExpiresInHours == 24
\* pdfContext.substring(0, 1500)
ContextChars == 1500
\* mysql.createPool({ connectionLimit: 10 })
connectionLimit == 10

(* ------------------------------- texts -------------------------------- *)
TextEmpty(t) == \A i \in 1..Len(t) : t[i] = ""

\* JavaScript's truthiness of a string
Truthy(t) == ~TextEmpty(t)

\* a || b on strings
OrElse(a, b) == IF Truthy(a) THEN a ELSE b

\* the value of a missing body field
Absent == "<undefined>"

\* !field for a body field that is a string or missing
Missing(f) == f = Absent \/ f = ""

\* the number of characters of one part; the two blocks stand for long runs
\* of text, "<A:n>" and "<B:n>" for the first n characters of each
PartLen(p) ==
    CASE p = "" -> 0
      [] p = "<A:1000>" -> 1000
      [] p = "<B:1000>" -> 1000
      [] p = "<B:500>" -> 500
      [] OTHER -> 5

\* the first n characters of one part that is longer than n
Take(p, n) ==
    CASE p = "<B:1000>" /\ n = 500 -> "<B:500>"
      [] OTHER -> "<cut>"

RECURSIVE CharLen(_)
CharLen(t) == IF t = <<>> THEN 0 ELSE PartLen(Head(t)) + CharLen(Tail(t))

\* a faulty excerpt, for C14: the context is passed on whole
SubstringWhole(t, n) == t

\* t.substring(0, n)
RECURSIVE Substring(_, _)
Substring(t, n) ==
    IF t = <<>> \/ n <= 0 THEN <<>>
    ELSE IF PartLen(Head(t)) <= n
         THEN <<Head(t)>> \o Substring(Tail(t), n - PartLen(Head(t)))
         ELSE <<Take(Head(t), n)>>

(* ----------------------------- sentiment ------------------------------ *)
\* text.toLowerCase() on one word
ToLower(w) ==
    CASE w = "Good" -> "good"
      [] w = "BAD" -> "bad"
      [] OTHER -> w

\* text.match(/\b\w+\b/g): the runs of word characters in one part
WordRuns(w) ==
    CASE w = "" -> <<>>
      [] w = "why?" -> <<"why">>
      [] w = "good?" -> <<"good">>
      [] w = "sad," -> <<"sad">>
      [] OTHER -> <<w>>

positiveWords(v) ==
    CASE v = VA -> {"good", "great", "excellent", "amazing", "happy"}
      [] v = VB -> {"good", "great", "excellent", "amazing", "wonderful",
                    "fantastic", "love", "like", "happy", "excited"}
      [] v = VC -> {"good", "great", "excellent", "happy", "love", "like"}
      [] OTHER -> {}

negativeWords(v) ==
    CASE v = VA -> {"bad", "terrible", "awful", "hate", "sad"}
      [] v = VB -> {"bad", "terrible", "awful", "hate", "dislike", "sad",
                    "angry", "frustrated", "confused", "difficult"}
      [] v = VC -> {"bad", "terrible", "awful", "hate", "sad", "angry"}
      [] OTHER -> {}

RECURSIVE Flatten(_)
Flatten(ss) == IF ss = <<>> THEN <<>> ELSE Head(ss) \o Flatten(Tail(ss))

\* the words the variant iterates over
Tokens(v, text) ==
    IF v = VC
    THEN Flatten([i \in 1..Len(text) |-> WordRuns(ToLower(text[i]))])
    ELSE IF text = <<>> THEN <<"">>
         ELSE [i \in 1..Len(text) |-> ToLower(text[i])]

RECURSIVE ScoreOf(_, _)
ScoreOf(v, ws) ==
    IF ws = <<>> THEN 0
    ELSE (IF Head(ws) \in positiveWords(v) THEN 10
          ELSE IF Head(ws) \in negativeWords(v) THEN -10 ELSE 0)
         + ScoreOf(v, Tail(ws))

RECURSIVE MagnitudeOf(_, _)
MagnitudeOf(v, ws) ==
    IF ws = <<>> THEN 0
    ELSE (IF Head(ws) \in positiveWords(v) \cup negativeWords(v) THEN 10 ELSE 0)
         + MagnitudeOf(v, Tail(ws))

Min(a, b) == IF a < b THEN a ELSE b
Max(a, b) == IF a > b THEN a ELSE b

NoSentiment == [score |-> 0, magnitude |-> 0]

analyzeSentiment(v, text) ==
    CASE v = VD -> [score |-> 0, magnitude |-> 0]
      [] v = VC -> [score |-> Max(-100, Min(100, ScoreOf(v, Tokens(v, text)))),
                    magnitude |-> Min(100, Len(Tokens(v, text)) * 5)]
      [] OTHER -> [score |-> Max(-100, Min(100, ScoreOf(v, Tokens(v, text)))),
                   magnitude |-> Min(100, MagnitudeOf(v, Tokens(v, text)))]

(* ------------------------------ passwords ----------------------------- *)
Salts == {"salt1", "salt2"}

\* bcrypt.hash(password, 10): a salted digest; a non-string is refused
Hashable(password) == password # Absent

bcryptHash(password, salt) == [salt |-> salt, digest |-> password]

\* a faulty comparison, for C8: the password is compared with the stored hash
\* as a plain string
bcryptComparePlain(password, hash) == [salt |-> "", digest |-> password] = hash

\* bcrypt.compare(password, hash), for a string password
bcryptCompare(password, hash) == bcryptHash(password, hash.salt) = hash

(* ------------------------------- tokens ------------------------------- *)
NoToken == [fmt |-> "none", userId |-> 0, iat |-> 0, exp |-> 0, sig |-> "none"]

Garbage == [fmt |-> "garbage", userId |-> 0, iat |-> 0, exp |-> 0, sig |-> "none"]

\* a faulty signing, for C7: the token is given twice the lifetime
jwtSignTwiceAsLong(userId, t) ==
    [fmt |-> "jwt", userId |-> userId, iat |-> t, exp |-> t + 2 * ExpiresInHours,
     sig |-> "AUTH_SECRET"]

\* jwt.sign({ userId }, process.env.AUTH_SECRET, { expiresIn: '24h' }) at time t
jwtSign(userId, t) ==
    [fmt |-> "jwt", userId |-> userId, iat |-> t, exp |-> t + ExpiresInHours,
     sig |-> "AUTH_SECRET"]

\* the same payload signed with another key
Forged(tok) == [tok EXCEPT !.sig = "other"]

\* jwt.verify(token, process.env.AUTH_SECRET, cb) at time t calls cb without err
jwtVerify(tok, t) ==
    /\ tok.fmt = "jwt"
    /\ tok.sig = "AUTH_SECRET"
    /\ t < tok.exp

\* the tokens a client holds after it was sent tok: it may keep what it had,
\* keep only the new one, or add the new one while it has room
Receive(tokens, tok) ==
    {tokens, {tok}} \cup (IF Cardinality(tokens) < MaxHeld THEN {tokens \cup {tok}} ELSE {})

NoHeader == [present |-> FALSE, credential |-> NoToken]
Bearer(tok) == [present |-> TRUE, credential |-> tok]

\* authHeader && authHeader.split(' ')[1]
HeaderToken(h) == IF h.present THEN h.credential ELSE NoToken

\* a faulty middleware, for C6: the expiry of the token is not looked at
authenticateTokenIgnoringExpiry(h, t) ==
    IF HeaderToken(h) = NoToken THEN 401
    ELSE IF ~(HeaderToken(h).fmt = "jwt" /\ HeaderToken(h).sig = "AUTH_SECRET") THEN 403
    ELSE 0

\* authenticateToken: 0 when next() is called, else the status sent
authenticateToken(h, t) ==
    IF HeaderToken(h) = NoToken THEN 401
    ELSE IF ~jwtVerify(HeaderToken(h), t) THEN 403
    ELSE 0

(* ------------------------------ the store ----------------------------- *)
\* insertDefaultSubjects
Subjects ==
    <<[id |-> 1, name |-> "Quantum Physics"],
      [id |-> 2, name |-> "Molecular Biology"]>>

NoRow == [id |-> 0, name |-> ""]

\* SELECT id FROM Subjects WHERE name = ?
SubjectRow(name) ==
    IF \E i \in 1..Len(Subjects) : Subjects[i].name = name
    THEN Subjects[CHOOSE i \in 1..Len(Subjects) : Subjects[i].name = name]
    ELSE NoRow

SubjectName(id) ==
    IF \E i \in 1..Len(Subjects) : Subjects[i].id = id
    THEN Subjects[CHOOSE i \in 1..Len(Subjects) : Subjects[i].id = id].name
    ELSE ""

\* the variants that keep a Subjects table and store subjectId in the rows
UsesSubjectTable(v) == v \in {VA, VC}

\* the variants that keep the PDF context cache
HasContextCache(v) == v \in {VB, VD}

NoSubject == "<none>"

UserIds == {Users[i].id : i \in 1..Len(Users)}

\* SELECT ... FROM Users WHERE email = ?
UserByEmail(email) ==
    IF \E i \in 1..Len(Users) : Users[i].email = email
    THEN Users[CHOOSE i \in 1..Len(Users) : Users[i].email = email]
    ELSE [id |-> 0, name |-> "", email |-> "", password |-> bcryptHash("", "salt1"),
          created_at |-> 0, last_login |-> -1]

\* FOREIGN KEY (userId) REFERENCES Users(id), foreign_keys = ON
ForeignKeysHold(userId) == userId \in UserIds

\* the row an INSERT INTO ChatMessages (userId, subject|subjectId, sender, text) adds
ChatRow(id, userId, subject, sender, text) ==
    [id |-> id, userId |-> userId,
     subject |-> IF UsesSubjectTable(variant) THEN NoSubject ELSE subject,
     subjectId |-> IF UsesSubjectTable(variant) THEN SubjectRow(subject).id ELSE 0,
     sender |-> sender, text |-> text, timestamp |-> now]

\* the row an INSERT INTO MoodLogs (userId, subject|subjectId, score, magnitude, message) adds
MoodRow(id, userId, subject, sentiment, message) ==
    [id |-> id, userId |-> userId,
     subject |-> IF UsesSubjectTable(variant) THEN NoSubject ELSE subject,
     subjectId |-> IF UsesSubjectTable(variant) THEN SubjectRow(subject).id ELSE 0,
     score |-> sentiment.score, magnitude |-> sentiment.magnitude,
     message |-> message, timestamp |-> now]

\* the subject name a stored row stands for
RowSubject(row) ==
    IF UsesSubjectTable(variant) THEN SubjectName(row.subjectId) ELSE row.subject

(* --------------------------- the context cache ------------------------ *)
\* userPdfContext.get(userId).get(subject) || '' behind userPdfContext.has(userId)
CachedContext(userId, subject) ==
    IF userId \in DOMAIN userPdfContext
    THEN IF subject \in DOMAIN userPdfContext[userId]
         THEN userPdfContext[userId][subject]
         ELSE <<>>
    ELSE <<>>

(* ------------------------------ requests ------------------------------ *)
Slots == 1..2

NoResponse ==
    [status |-> 0, fields |-> {}, error |-> "", aiResponse |-> <<>>,
     sentiment |-> NoSentiment, usingFallback |-> FALSE, userId |-> 0,
     token |-> NoToken, rows |-> <<>>]

\* req.query.limit when the query string has none
NoLimit == -1

\* req.query.days when the query string has none
NoDays == -1

\* no completion request was built
NoPrompt == [system |-> <<>>, user |-> <<>>]

Idle ==
    [pc |-> "idle", kind |-> "none", header |-> NoHeader, userId |-> 0,
     subject |-> "", message |-> <<>>, content |-> <<>>, name |-> "",
     email |-> "", password |-> "", pdfContext |-> <<>>, aiResponse |-> <<>>,
     usingFallback |-> FALSE, outcome |-> "none", calls |-> 0, failed |-> 0,
     rows |-> {}, moods |-> {}, at |-> 0, ran |-> FALSE, prompt |-> NoPrompt,
     limit |-> NoLimit, days |-> NoDays, overlap |-> FALSE,
     conn |-> FALSE, released |-> 0, res |-> NoResponse]

\* res.sendStatus(status)
SendStatus(status) == [NoResponse EXCEPT !.status = status]

\* res.status(status).json({ error })
SendError(status, error) ==
    [NoResponse EXCEPT !.status = status, !.fields = {"error"}, !.error = error]

\* a faulty ending, for C21: the connection is released on the success path only
DoneReleasingOnSuccess(r, res) ==
    [r EXCEPT !.pc = "done", !.res = res,
              !.released = IF r.conn /\ res.status = 200 THEN r.released + 1
                           ELSE r.released]

\* the response is sent and the handler ends: finally { if (connection)
\* connection.release(); } where the handler has one
Done(r, res) ==
    [r EXCEPT !.pc = "done", !.res = res,
              !.released = IF r.conn THEN r.released + 1 ELSE r.released]

\* the request as the route receives it
Arrived(kind, h, userId, subject) ==
    [Idle EXCEPT !.kind = kind, !.header = h, !.userId = userId,
                 !.subject = subject, !.at = now]

\* authenticateToken called next(): the route handler runs
Admitted(r) == [r EXCEPT !.ran = TRUE]

(* ------------------------- the completion provider -------------------- *)
\* what one call to the provider can end in
ProviderOutcomes ==
    {"network_error",     \* fetch rejects
     "ok_choice",         \* 2xx, choices[0].message.content is a string
     "ok_no_choice",      \* 2xx, a JSON body without choices
     "ok_unparsable",     \* 2xx, the body is no JSON
     "error_json",        \* non-2xx with a JSON error body
     "error_unparsable"}  \* non-2xx, the body is no JSON

ProviderFailures == ProviderOutcomes \ {"ok_choice"}

\* without a credential the provider answers no completion
PossibleOutcomes == IF apiKey THEN ProviderOutcomes
                    ELSE {"network_error", "error_json", "error_unparsable"}

\* the variant calls the provider: process.env.OPENROUTER_API_KEY is tested
\* by all but the MySQL variant
CallsProvider(v) == v = VD \/ apiKey

\* fetch(...) or response.json() rejects, or the variant throws on !response.ok
ProviderThrows(v, outcome) ==
    \/ outcome \in {"network_error", "ok_unparsable", "error_unparsable"}
    \/ v = VC /\ outcome = "error_json"

\* data.choices?.[0]?.message?.content
ChoiceContent(outcome, content) == IF outcome = "ok_choice" THEN content ELSE <<>>

CouldNotGenerate(v) ==
    IF v = VB THEN <<"I couldn't generate a response at the moment.">>
    ELSE <<"I couldn't generate a response.">>

\* the text set in catch (apiError)
ApiErrorText(v, subject) ==
    CASE v = VA ->
           <<"I'm having trouble connecting to my knowledge base. Please try again later.">>
      [] v = VB ->
           <<"I'm having trouble connecting to my knowledge base right now. However, I can still help with ",
             subject, "! Could you try rephrasing your question?">>
      [] OTHER ->
           <<"I'm having trouble accessing my knowledge base. Please try again later.">>

\* message.includes('?')
IncludesQuestionMark(message) ==
    \E i \in 1..Len(message) : message[i] \in {"why?", "good?"}

\* fallbackResponses[subject]
fallbackResponses(subject) ==
    CASE subject = "Quantum Physics" ->
           <<"I'd be happy to help with quantum physics! ...">>
      [] subject = "Molecular Biology" ->
           <<"Molecular biology is all about understanding life at the molecular level. ...">>
      [] subject = "Advanced Calculus" ->
           <<"Calculus is a powerful mathematical tool! ...">>
      [] subject = "Machine Learning" ->
           <<"Machine learning is an exciting field ...">>
      [] subject = "World Literature" ->
           <<"Literature opens windows to different cultures and human experiences. ...">>
      [] subject = "Modern History" ->
           <<"History helps us understand how we got to where we are today. ...">>
      [] OTHER -> <<>>

\* the reply when no API key is configured
NoKeyFallback(v, subject, message) ==
    CASE v = VA ->
           <<"I'm here to help with ", subject, "! ",
             IF IncludesQuestionMark(message)
             THEN "That's an interesting question. Let me think about it..."
             ELSE "Could you tell me more about what you're looking for?">>
      [] v = VB ->
           OrElse(fallbackResponses(subject),
                  <<"I'm here to help with ", subject,
                    "! What specific topic or question do you have?">>)
      [] OTHER ->
           <<"I'm here to help with ", subject, "! ",
             IF IncludesQuestionMark(message)
             THEN "That's an interesting question. In this subject, we typically consider..."
             ELSE "Could you tell me more about what you're looking to understand?">>

\* aiResponse after the provider call, where the variant catches its failure
ProviderReplyText(v, outcome, content, subject) ==
    IF ProviderThrows(v, outcome) THEN ApiErrorText(v, subject)
    ELSE OrElse(ChoiceContent(outcome, content), CouldNotGenerate(v))

\* the provider's failure leaves the inner try: only the MySQL variant has none
EscapesToHandler(v, outcome) == v = VD /\ ProviderThrows(v, outcome)

(* ------------------------------ POST /api/chat ------------------------ *)
ChatError == "An error occurred during chat processing."

\* the 400 answers before any work is done; "" when the request goes on
ChatValidation(v, subject, message) ==
    IF v = VC /\ (TextEmpty(message) \/ subject = "")
    THEN "Message and subject are required."
    ELSE IF UsesSubjectTable(v) /\ SubjectRow(subject) = NoRow
    THEN "Invalid subject."
    ELSE ""

\* messages[0].content: the system instruction
SystemTurn(v, subject) ==
    CASE v = VA -> <<"You are an expert tutor in ", subject,
                     ". Explain concepts clearly and provide examples.">>
      [] v = VB -> <<"You are an expert tutor in ", subject,
                     ". Use the provided context when relevant. Be concise, clear, and encouraging. Help students understand concepts step by step.">>
      [] v = VC -> <<"You are an expert tutor in ", subject,
                     ". Explain concepts clearly at a college level. Provide examples when helpful.">>
      [] OTHER -> <<"You are an expert tutor in ", subject,
                    ". Use the provided context when relevant. Be concise, clear, and encouraging.">>

\* messages[1].content: the user turn
UserTurn(v, pdfContext, message) ==
    IF HasContextCache(v) /\ Truthy(pdfContext)
    THEN IF v = VB
         THEN <<"Context from uploaded materials: ">>
                 \o Substring(pdfContext, ContextChars)
                 \o <<"\n\nStudent Question: ">> \o message
         ELSE <<"Context: ">> \o Substring(pdfContext, ContextChars)
                 \o <<"\n\nQuestion: ">> \o message
    ELSE message

\* the variant whose chat handler first awaits a connection of the pool
AcquiresConnection(v) == v = VD

\* the handler from its reading of the cache to its next await
ChatBegin(r) ==
    LET ctx == IF HasContextCache(variant) THEN CachedContext(r.userId, r.subject)
               ELSE <<>>
    IN IF CallsProvider(variant)
       THEN [r EXCEPT !.pc = "fetch", !.pdfContext = ctx, !.calls = r.calls + 1,
                      !.usingFallback = TRUE,
                      !.prompt = [system |-> SystemTurn(variant, r.subject),
                                  user |-> UserTurn(variant, ctx, r.message)]]
       ELSE [r EXCEPT !.pc = "write1", !.pdfContext = ctx, !.outcome = "no_key",
                      !.usingFallback = TRUE,
                      !.aiResponse = NoKeyFallback(variant, r.subject, r.message)]

\* a clear-history request is between its arrival and its response
Clearing(r, userId, subject) ==
    /\ r.kind = "clear"
    /\ r.pc \in {"delete1", "delete2"}
    /\ r.userId = userId /\ r.subject = subject

\* a chat request is between its arrival and its response
Chatting(r, userId, subject) ==
    /\ r.kind = "chat"
    /\ r.pc \notin {"idle", "done"}
    /\ r.userId = userId /\ r.subject = subject

\* the requests in flight after a chat of (userId, subject) was admitted in
\* slot s: a clear-history of the pair in flight has met it (history variable)
WithChat(s, r, userId, subject) ==
    [s2 \in Slots |->
        IF s2 = s THEN r
        ELSE IF Clearing(reqs[s2], userId, subject)
        THEN [reqs[s2] EXCEPT !.overlap = TRUE]
        ELSE reqs[s2]]

\* cap bounds the ids the ChatMessages table hands out
ChatArrives(cap, s, h, userId, subject, message) ==
    /\ reqs[s].pc = "idle"
    /\ LET r0 == [Arrived("chat", h, userId, subject) EXCEPT !.message = message]
           st == authenticateToken(h, now)
           bad == ChatValidation(variant, subject, message)
       IN IF st # 0
          THEN reqs' = [reqs EXCEPT ![s] = Done(r0, SendStatus(st))]
          ELSE IF bad # ""
          THEN reqs' = [reqs EXCEPT ![s] = Done(Admitted(r0), SendError(400, bad))]
          ELSE /\ nextId.chat + 1 <= cap
               /\ reqs' = WithChat(s,
                      IF AcquiresConnection(variant)
                      THEN [Admitted(r0) EXCEPT !.pc = "connect"]
                      ELSE ChatBegin(Admitted(r0)),
                      userId, subject)
    /\ UNCHANGED <<variant, apiKey, now, durable, userPdfContext, held>>

\* POST /api/chat arrives
ChatStart(s, h, userId, subject, message) ==
    ChatArrives(MaxRows, s, h, userId, subject, message)

\* connections of the pool that are out
PoolHeld == Cardinality({s \in Slots : reqs[s].conn /\ reqs[s].released = 0})

\* connection = await dbPool.getConnection() resolved: the handler goes on
ChatConnect(s) ==
    /\ reqs[s].pc = "connect"
    /\ reqs[s].kind = "chat"
    /\ PoolHeld < connectionLimit
    /\ reqs' = [reqs EXCEPT ![s] = ChatBegin([reqs[s] EXCEPT !.conn = TRUE])]
    /\ UNCHANGED <<variant, apiKey, now, durable, userPdfContext, held>>

\* await dbPool.getConnection() rejected: connection stays undefined
ChatConnectFails(s) ==
    /\ reqs[s].pc = "connect"
    /\ reqs[s].kind = "chat"
    /\ reqs' = [reqs EXCEPT ![s] =
              Done([reqs[s] EXCEPT !.failed = reqs[s].failed + 1],
                   SendError(500, ChatError))]
    /\ UNCHANGED <<variant, apiKey, now, durable, userPdfContext, held>>

\* the provider call ends
ChatProviderReply(s, outcome, content) ==
    /\ reqs[s].pc = "fetch"
    /\ reqs[s].kind = "chat"
    /\ outcome \in PossibleOutcomes
    /\ LET r == [reqs[s] EXCEPT !.outcome = outcome]
       IN IF EscapesToHandler(variant, outcome)
          THEN reqs' = [reqs EXCEPT ![s] = Done(r, SendError(500, ChatError))]
          ELSE reqs' = [reqs EXCEPT ![s] =
                    [r EXCEPT !.pc = "write1",
                              !.usingFallback = ProviderThrows(variant, outcome),
                              !.aiResponse = ProviderReplyText(variant, outcome, content,
                                                               r.subject)]]
    /\ UNCHANGED <<variant, apiKey, now, durable, userPdfContext, held>>

\* a faulty insert, for C3: the store's rejection is swallowed and the handler
\* goes on to its next step
ChatInsertSwallowing(s, ok, at, sender, text, next) ==
    /\ reqs[s].pc = at
    /\ reqs[s].kind = "chat"
    /\ LET r == reqs[s]
       IN IF ok /\ ForeignKeysHold(r.userId)
          THEN /\ ChatMessages' = Append(ChatMessages,
                      ChatRow(nextId.chat, r.userId, r.subject, sender, text))
               /\ nextId' = [nextId EXCEPT !.chat = nextId.chat + 1]
               /\ reqs' = [reqs EXCEPT ![s] =
                      [r EXCEPT !.pc = next, !.rows = r.rows \cup {nextId.chat}]]
          ELSE /\ reqs' = [reqs EXCEPT ![s] =
                      [r EXCEPT !.pc = next, !.failed = r.failed + 1]]
               /\ UNCHANGED <<ChatMessages, nextId>>
    /\ UNCHANGED <<variant, apiKey, now, Users, MoodLogs, userPdfContext, held>>

\* INSERT INTO ChatMessages for one sender; ok is whether the store accepts it
ChatInsert(s, ok, at, sender, text, next) ==
    /\ reqs[s].pc = at
    /\ reqs[s].kind = "chat"
    /\ LET r == reqs[s]
       IN IF ok /\ ForeignKeysHold(r.userId)
          THEN /\ ChatMessages' = Append(ChatMessages,
                      ChatRow(nextId.chat, r.userId, r.subject, sender, text))
               /\ nextId' = [nextId EXCEPT !.chat = nextId.chat + 1]
               /\ reqs' = [reqs EXCEPT ![s] =
                      [r EXCEPT !.pc = next, !.rows = r.rows \cup {nextId.chat}]]
          ELSE /\ reqs' = [reqs EXCEPT ![s] =
                      Done([r EXCEPT !.failed = r.failed + 1], SendError(500, ChatError))]
               /\ UNCHANGED <<ChatMessages, nextId>>
    /\ UNCHANGED <<variant, apiKey, now, Users, MoodLogs, userPdfContext, held>>

ChatWriteUser(s, ok) == ChatInsert(s, ok, "write1", "user", reqs[s].message, "write2")

ChatWriteAi(s, ok) == ChatInsert(s, ok, "write2", "ai", reqs[s].aiResponse, "write3")

\* res.json({ aiResponse, sentiment [, usingFallback] })
ChatReply(r, sentiment) ==
    [NoResponse EXCEPT
       !.status = 200,
       !.fields = IF UsesSubjectTable(variant)
                  THEN {"aiResponse", "sentiment", "usingFallback"}
                  ELSE {"aiResponse", "sentiment"},
       !.aiResponse = r.aiResponse,
       !.sentiment = sentiment,
       !.usingFallback = UsesSubjectTable(variant) /\ r.usingFallback]

\* a faulty last step, for C4: the sentiment is taken from the AI reply
ChatWriteMoodOfReply(s, ok) ==
    /\ reqs[s].pc = "write3"
    /\ reqs[s].kind = "chat"
    /\ LET r == reqs[s]
           sentiment == analyzeSentiment(variant, r.aiResponse)
       IN IF ok /\ ForeignKeysHold(r.userId)
          THEN /\ MoodLogs' = Append(MoodLogs,
                      MoodRow(nextId.mood, r.userId, r.subject, sentiment, r.message))
               /\ nextId' = [nextId EXCEPT !.mood = nextId.mood + 1]
               /\ reqs' = [reqs EXCEPT ![s] =
                      Done([r EXCEPT !.moods = r.moods \cup {nextId.mood}],
                           ChatReply(r, sentiment))]
          ELSE /\ reqs' = [reqs EXCEPT ![s] =
                      Done([r EXCEPT !.failed = r.failed + 1], SendError(500, ChatError))]
               /\ UNCHANGED <<MoodLogs, nextId>>
    /\ UNCHANGED <<variant, apiKey, now, Users, ChatMessages, userPdfContext, held>>

\* analyzeSentiment(message), INSERT INTO MoodLogs, and the response
ChatWriteMood(s, ok) ==
    /\ reqs[s].pc = "write3"
    /\ reqs[s].kind = "chat"
    /\ LET r == reqs[s]
           sentiment == analyzeSentiment(variant, r.message)
       IN IF ok /\ ForeignKeysHold(r.userId)
          THEN /\ MoodLogs' = Append(MoodLogs,
                      MoodRow(nextId.mood, r.userId, r.subject, sentiment, r.message))
               /\ nextId' = [nextId EXCEPT !.mood = nextId.mood + 1]
               /\ reqs' = [reqs EXCEPT ![s] =
                      Done([r EXCEPT !.moods = r.moods \cup {nextId.mood}],
                           ChatReply(r, sentiment))]
          ELSE /\ reqs' = [reqs EXCEPT ![s] =
                      Done([r EXCEPT !.failed = r.failed + 1], SendError(500, ChatError))]
               /\ UNCHANGED <<MoodLogs, nextId>>
    /\ UNCHANGED <<variant, apiKey, now, Users, ChatMessages, userPdfContext, held>>

\* the response is out; the slot takes the next request
Finish(s) ==
    /\ reqs[s].pc = "done"
    /\ reqs' = [reqs EXCEPT ![s] = Idle]
    /\ UNCHANGED <<variant, apiKey, now, durable, userPdfContext, held>>

(* ------------------------ POST /api/upload-pdf-content ---------------- *)
\* res.json({ message })
SendMessage == [NoResponse EXCEPT !.status = 200, !.fields = {"message"}]

EmptyMap == [k \in {} |-> <<>>]

\* a faulty store, for C12: the user's map is made anew on every upload
StoreContextInNewMap(cache, userId, subject, content) ==
    (userId :> (subject :> content)) @@ cache

\* a faulty store, for C13: the new content is added to what the pair had
StoreContextAppending(cache, userId, subject, content) ==
    LET old == IF userId \in DOMAIN cache THEN cache[userId] ELSE EmptyMap
        had == IF subject \in DOMAIN old THEN old[subject] ELSE <<>>
    IN (userId :> ((subject :> (had \o content)) @@ old)) @@ cache

\* userPdfContext.set(userId, new Map()) when absent, then .get(userId).set(subject, content)
StoreContext(cache, userId, subject, content) ==
    LET old == IF userId \in DOMAIN cache THEN cache[userId] ELSE EmptyMap
    IN (userId :> ((subject :> content) @@ old)) @@ cache

UploadPdfContent(s, h, userId, subject, content) ==
    /\ HasContextCache(variant)
    /\ reqs[s].pc = "idle"
    /\ LET r0 == [Arrived("upload", h, userId, subject) EXCEPT !.content = content]
           st == authenticateToken(h, now)
       IN IF st # 0
          THEN /\ reqs' = [reqs EXCEPT ![s] = Done(r0, SendStatus(st))]
               /\ UNCHANGED userPdfContext
          ELSE /\ userPdfContext' = StoreContext(userPdfContext, userId, subject, content)
               /\ reqs' = [reqs EXCEPT ![s] = Done(Admitted(r0), SendMessage)]
    /\ UNCHANGED <<variant, apiKey, now, durable, held>>

(* --------------------- DELETE /api/clear-history/:userId -------------- *)
\* the variants that define the route
HasClearHistory(v) == v \in {VB, VD}

\* WHERE userId = ? AND subject = ?
OfPair(row, userId, subject) == row.userId = userId /\ row.subject = subject

\* a faulty delete, for C30: the user is not looked at
DeleteOfSubject(rows, userId, subject) ==
    SelectSeq(rows, LAMBDA row : row.subject # subject)

\* a faulty delete, for C19: the subject is not looked at
DeleteOfUser(rows, userId, subject) ==
    SelectSeq(rows, LAMBDA row : row.userId # userId)

\* DELETE FROM <table> WHERE userId = ? AND subject = ?
DeleteOfPair(rows, userId, subject) ==
    SelectSeq(rows, LAMBDA row : ~OfPair(row, userId, subject))

ClearError == "Failed to clear history."

\* the request arrives; the handler issues the first DELETE
ClearHistory(s, h, userId, subject) ==
    /\ HasClearHistory(variant)
    /\ reqs[s].pc = "idle"
    /\ LET r0 == Arrived("clear", h, userId, subject)
           st == authenticateToken(h, now)
       IN IF st # 0
          THEN reqs' = [reqs EXCEPT ![s] = Done(r0, SendStatus(st))]
          ELSE reqs' = [reqs EXCEPT ![s] =
                   [Admitted(r0) EXCEPT
                       !.pc = "delete1",
                       !.overlap = \E s2 \in Slots \ {s} :
                                      Chatting(reqs[s2], userId, subject)]]
    /\ UNCHANGED <<variant, apiKey, now, durable, userPdfContext, held>>

\* await dbRun('DELETE FROM ChatMessages ...') settles
ClearDeleteChat(s, ok) ==
    /\ reqs[s].pc = "delete1"
    /\ LET r == reqs[s]
       IN IF ok
          THEN /\ ChatMessages' = DeleteOfPair(ChatMessages, r.userId, r.subject)
               /\ reqs' = [reqs EXCEPT ![s].pc = "delete2"]
          ELSE /\ reqs' = [reqs EXCEPT ![s] =
                      Done([r EXCEPT !.failed = r.failed + 1], SendError(500, ClearError))]
               /\ UNCHANGED ChatMessages
    /\ UNCHANGED <<variant, apiKey, now, Users, MoodLogs, nextId, userPdfContext, held>>

\* await dbRun('DELETE FROM MoodLogs ...') settles
ClearDeleteMoods(s, ok) ==
    /\ reqs[s].pc = "delete2"
    /\ LET r == reqs[s]
       IN IF ok
          THEN /\ MoodLogs' = DeleteOfPair(MoodLogs, r.userId, r.subject)
               /\ reqs' = [reqs EXCEPT ![s] = Done(r, SendMessage)]
          ELSE /\ reqs' = [reqs EXCEPT ![s] =
                      Done([r EXCEPT !.failed = r.failed + 1], SendError(500, ClearError))]
               /\ UNCHANGED MoodLogs
    /\ UNCHANGED <<variant, apiKey, now, Users, ChatMessages, nextId, userPdfContext, held>>

(* ------------------------ GET /api/history/:userId -------------------- *)
\* the rows of a sequence, as a set
Range(sq) == {sq[i] : i \in 1..Len(sq)}

\* the orders ORDER BY timestamp ASC|DESC may return a set of rows in:
\* rows of equal timestamp come in any order
Orderings(rows, ascending) ==
    {sq \in [1..Cardinality(rows) -> rows] :
        /\ \A i, j \in 1..Cardinality(rows) : i # j => sq[i] # sq[j]
        /\ \A i, j \in 1..Cardinality(rows) :
              i < j => IF ascending THEN sq[i].timestamp <= sq[j].timestamp
                       ELSE sq[i].timestamp >= sq[j].timestamp}

Reverse(sq) == [i \in 1..Len(sq) |-> sq[Len(sq) + 1 - i]]

Limited(sq, limit) ==
    IF limit = NoLimit \/ limit >= Len(sq) THEN sq ELSE SubSeq(sq, 1, limit)

\* a faulty selection, for C17: the subject is not looked at
HistoryRowsOfUser(userId, subject) ==
    {row \in Range(ChatMessages) : row.userId = userId}

\* WHERE cm.userId = ? AND cm.subject|subjectId = ?
HistoryRows(userId, subject) ==
    {row \in Range(ChatMessages) :
        /\ row.userId = userId
        /\ IF UsesSubjectTable(variant)
           THEN row.subjectId = SubjectRow(subject).id
           ELSE row.subject = subject}

\* the 400 answers of the route; "" when the query is run
HistoryValidation(v, subject) ==
    IF v = VC /\ subject = "" THEN "Subject is required."
    ELSE IF UsesSubjectTable(v) /\ SubjectRow(subject) = NoRow THEN "Invalid subject."
    ELSE ""

\* the sequences the route may answer with
HistoryAnswers(v, userId, subject, limit) ==
    IF v = VC
    THEN {Reverse(Limited(sq, limit)) : sq \in Orderings(HistoryRows(userId, subject), FALSE)}
    ELSE Orderings(HistoryRows(userId, subject), TRUE)

\* res.json({ history }) and the like
SendRows(field, rows) ==
    [NoResponse EXCEPT !.status = 200, !.fields = {field}, !.rows = rows]

GetHistory(s, h, userId, subject, limit) ==
    /\ reqs[s].pc = "idle"
    /\ LET r0 == [Arrived("history", h, userId, subject) EXCEPT !.limit = limit]
           st == authenticateToken(h, now)
           bad == HistoryValidation(variant, subject)
       IN IF st # 0
          THEN reqs' = [reqs EXCEPT ![s] = Done(r0, SendStatus(st))]
          ELSE IF bad # ""
          THEN reqs' = [reqs EXCEPT ![s] = Done(Admitted(r0), SendError(400, bad))]
          ELSE \E sq \in HistoryAnswers(variant, userId, subject, limit) :
                  reqs' = [reqs EXCEPT ![s] = Done(Admitted(r0), SendRows("history", sq))]
    /\ UNCHANGED <<variant, apiKey, now, durable, userPdfContext, held>>

(* ------------------------ GET /api/moodlogs/:userId ------------------- *)
\* WHERE ml.userId = ? [AND ml.timestamp >= datetime("now", "-<days> days")]
MoodRows(v, userId, days) ==
    {row \in Range(MoodLogs) :
        /\ row.userId = userId
        /\ (v = VC /\ days # NoDays) => row.timestamp >= now - 24 * days}

GetMoodLogs(s, h, userId, days) ==
    /\ reqs[s].pc = "idle"
    /\ LET r0 == [Arrived("moodlogs", h, userId, "") EXCEPT !.days = days]
           st == authenticateToken(h, now)
       IN IF st # 0
          THEN reqs' = [reqs EXCEPT ![s] = Done(r0, SendStatus(st))]
          ELSE \E sq \in Orderings(MoodRows(variant, userId, days), FALSE) :
                  reqs' = [reqs EXCEPT ![s] = Done(Admitted(r0), SendRows("moodLogs", sq))]
    /\ UNCHANGED <<variant, apiKey, now, durable, userPdfContext, held>>

(* -------------------------- GET /api/user/:userId --------------------- *)
\* the variant that defines the route
HasUserProfile(v) == v = VC

GetUser(s, h, userId) ==
    /\ HasUserProfile(variant)
    /\ reqs[s].pc = "idle"
    /\ LET r0 == Arrived("user", h, userId, "")
           st == authenticateToken(h, now)
           found == {Users[i] : i \in {k \in 1..Len(Users) : Users[k].id = userId}}
       IN IF st # 0
          THEN reqs' = [reqs EXCEPT ![s] = Done(r0, SendStatus(st))]
          ELSE IF found = {}
          THEN reqs' = [reqs EXCEPT ![s] =
                   Done(Admitted(r0), SendError(404, "User not found."))]
          ELSE \E u \in found :
                  reqs' = [reqs EXCEPT ![s] = Done(Admitted(r0),
                      [NoResponse EXCEPT
                         !.status = 200,
                         !.fields = {"id", "name", "email", "created_at", "last_login"},
                         !.userId = u.id,
                         !.rows = <<[id |-> u.id, name |-> u.name, email |-> u.email,
                                     created_at |-> u.created_at,
                                     last_login |-> u.last_login]>>])]
    /\ UNCHANGED <<variant, apiKey, now, durable, userPdfContext, held>>

(* ----------------------------- POST /api/signup ----------------------- *)
\* last_login of a user who never logged in
Never == -1

EmailRegistered(email) == \E i \in 1..Len(Users) : Users[i].email = email

\* a faulty check, for C9: the email is not looked up before the insert
SignupRejectionNoLookup(v, name, email, password) ==
    IF v = VC /\ (Missing(name) \/ Missing(email) \/ Missing(password)) THEN 400
    ELSE 0

\* what the route answers before it inserts; 0 when it goes on to insert
SignupRejection(v, name, email, password) ==
    IF v = VC /\ (Missing(name) \/ Missing(email) \/ Missing(password)) THEN 400
    ELSE IF EmailRegistered(email) THEN 409
    ELSE 0

SignupErrorText(status) ==
    CASE status = 400 -> "All fields are required."
      [] status = 409 -> "Email already registered."
      [] OTHER -> "An error occurred during registration."

\* res.status(201).json({ message, userId, token }) or res.json(...) of login
SendSession(status, userId, token) ==
    [NoResponse EXCEPT !.status = status, !.fields = {"message", "userId", "token"},
                       !.userId = userId, !.token = token]

\* validation and SELECT id FROM Users WHERE email = ?
SignupCheck(s, name, email, password) ==
    /\ reqs[s].pc = "idle"
    /\ LET r0 == [Idle EXCEPT !.kind = "signup", !.name = name, !.email = email,
                              !.password = password, !.at = now, !.ran = TRUE]
           st == SignupRejection(variant, name, email, password)
       IN IF st # 0
          THEN reqs' = [reqs EXCEPT ![s] = Done(r0, SendError(st, SignupErrorText(st)))]
          ELSE /\ Len(Users) < MaxUsers
               /\ reqs' = [reqs EXCEPT ![s] = [r0 EXCEPT !.pc = "insert"]]
    /\ UNCHANGED <<variant, apiKey, now, durable, userPdfContext, held>>

\* bcrypt.hash, INSERT INTO Users (email is UNIQUE), jwt.sign and the 201
SignupInsert(s, salt) ==
    /\ reqs[s].pc = "insert"
    /\ reqs[s].kind = "signup"
    /\ LET r == reqs[s]
           id == nextId.user
           token == jwtSign(id, now)
       IN IF Hashable(r.password) /\ ~EmailRegistered(r.email)
          THEN /\ Users' = Append(Users,
                      [id |-> id, name |-> r.name, email |-> r.email,
                       password |-> bcryptHash(r.password, salt),
                       created_at |-> now, last_login |-> Never])
               /\ nextId' = [nextId EXCEPT !.user = id + 1]
               /\ held' \in Receive(held, token)
               /\ reqs' = [reqs EXCEPT ![s] = Done(r, SendSession(201, id, token))]
          ELSE /\ reqs' = [reqs EXCEPT ![s] =
                      Done([r EXCEPT !.failed = r.failed + 1],
                           SendError(500, SignupErrorText(500)))]
               /\ UNCHANGED <<Users, nextId, held>>
    /\ UNCHANGED <<variant, apiKey, now, ChatMessages, MoodLogs, userPdfContext>>

(* ------------------------------ POST /api/login ----------------------- *)
\* the variants that run UPDATE Users SET last_login = CURRENT_TIMESTAMP
UpdatesLastLogin(v) == v \in {VA, VC}

\* the status the route answers with
LoginStatus(v, email, password) ==
    IF v = VC /\ (Missing(email) \/ Missing(password)) THEN 400
    ELSE IF ~EmailRegistered(email) THEN 401
    ELSE IF ~Hashable(password) THEN 500
    ELSE IF ~bcryptCompare(password, UserByEmail(email).password) THEN 401
    ELSE 200

LoginErrorText(status) ==
    CASE status = 400 -> "Email and password are required."
      [] status = 401 -> "Invalid email or password."
      [] OTHER -> "An error occurred during login."

Login(s, email, password) ==
    /\ reqs[s].pc = "idle"
    /\ LET r0 == [Idle EXCEPT !.kind = "login", !.email = email,
                              !.password = password, !.at = now, !.ran = TRUE]
           st == LoginStatus(variant, email, password)
           user == UserByEmail(email)
           token == jwtSign(user.id, now)
       IN IF st # 200
          THEN /\ reqs' = [reqs EXCEPT ![s] = Done(r0, SendError(st, LoginErrorText(st)))]
               /\ UNCHANGED <<Users, held>>
          ELSE /\ Users' = [i \in 1..Len(Users) |->
                      IF UpdatesLastLogin(variant) /\ Users[i].id = user.id
                      THEN [Users[i] EXCEPT !.last_login = now]
                      ELSE Users[i]]
               /\ held' \in Receive(held, token)
               /\ reqs' = [reqs EXCEPT ![s] = Done(r0, SendSession(200, user.id, token))]
    /\ UNCHANGED <<variant, apiKey, now, ChatMessages, MoodLogs, nextId, userPdfContext>>

(* -------------------------------- time -------------------------------- *)
Tick ==
    /\ now + TickHours <= MaxClock
    /\ now' = now + TickHours
    /\ UNCHANGED <<variant, apiKey, durable, userPdfContext, held, reqs>>

(* ------------------------- what clients may send ---------------------- *)
\* the Authorization headers a client can put together
Headers ==
    {NoHeader, Bearer(NoToken), Bearer(Garbage)}
      \cup {Bearer(t) : t \in held}
      \cup {Bearer(Forged(t)) : t \in held}

BodyUserIds == {1, 2}

ChatSubjects == {"Quantum Physics", "Astrology", ""}

ChatMessageTexts == {<<>>, <<"good">>, <<"BAD", "why?">>}

ProviderContents == {<<"">>, <<"good", "answer">>}

ContextTexts == {<<"notes">>}

Names == {"", "Ada"}

Emails == {"ada@x.com", "bob@x.com"}

Passwords == {Absent, "", "secret123", "hunter2"}

SignupPasswords == {Absent, "", "secret123"}

\* what uploads carry in the cache specifications
CacheSubjects == {"Quantum Physics", "Astrology"}

CacheContents == {<<>>, <<"notes">>, <<"other", "notes">>}

\* the (userId, subject) pairs histories are kept for
HistoryPairs ==
    {<<1, "Quantum Physics">>, <<1, "Molecular Biology">>, <<2, "Quantum Physics">>}

\* req.query.limit, parsed
Limits == {NoLimit, 0, 1, 2, 3}

\* req.query.days
DaysAsked == {NoDays, 0, 1}

\* the token Ada got when she signed up
SignupHeader == Bearer(jwtSign(1, 0))

\* the token Bob got when he signed up
BobHeader == Bearer(jwtSign(2, 0))

Repeat(w, k) == [i \in 1..k |-> w]

\* the messages whose sentiment is computed
SentimentTexts ==
    {<<>>, <<"why?">>, <<"Good">>, <<"BAD", "why?">>, <<"good", "bad">>,
     <<"good?">>, <<"sad,", "good">>, <<"love", "hate", "hate">>,
     Repeat("good", ClampWords), Repeat("bad", ClampWords),
     Repeat("why", LengthWords)}

\* contexts of 0, 5, 1500 and 2000 characters
PromptContents ==
    {<<>>, <<"notes">>, <<"<A:1000>", "<B:500>">>, <<"<A:1000>", "<B:1000>">>}

\* what the racing uploads carry
RaceContents == {<<"notes">>, <<"other", "notes">>}

\* a header that passes the middleware at the start of the chat specifications
GoodHeader == Bearer(jwtSign(1, 12))

(* ------------------------- the chat specification --------------------- *)
Ada ==
    [id |-> 1, name |-> "Ada", email |-> "ada@x.com",
     password |-> bcryptHash("secret123", "salt1"), created_at |-> 0,
     last_login |-> Never]

\* Ada signed up at 0 and logged in at 12; it is 24 now
InitChat ==
    /\ variant \in Variants
    /\ apiKey \in BOOLEAN
    /\ now = 24
    /\ Users = <<Ada>>
    /\ ChatMessages = <<>>
    /\ MoodLogs = <<>>
    /\ nextId = [chat |-> 1, mood |-> 1, user |-> 2]
    /\ userPdfContext = EmptyMap
    /\ held = {jwtSign(1, 0), jwtSign(1, 12)}
    /\ reqs = [s \in Slots |-> Idle]

NextChat ==
    \/ \E h \in Headers, u \in BodyUserIds, subj \in ChatSubjects,
          m \in ChatMessageTexts : ChatStart(1, h, u, subj, m)
    \/ ChatConnect(1)
    \/ \E o \in ProviderOutcomes, c \in ProviderContents : ChatProviderReply(1, o, c)
    \/ \E ok \in BOOLEAN : ChatWriteUser(1, ok)
    \/ \E ok \in BOOLEAN : ChatWriteAi(1, ok)
    \/ \E ok \in BOOLEAN : ChatWriteMood(1, ok)
    \/ Finish(1)

SpecChat == InitChat /\ [][NextChat]_vars

(* ------------------ the specification of the guarded routes ----------- *)
\* every route behind authenticateToken, each with one well-formed body
NextGate ==
    \/ \E h \in Headers : ChatStart(1, h, 1, "Quantum Physics", <<"good">>)
    \/ ChatConnect(1)
    \/ \E o \in ProviderOutcomes : ChatProviderReply(1, o, <<"good", "answer">>)
    \/ \E ok \in BOOLEAN : ChatWriteUser(1, ok)
    \/ \E ok \in BOOLEAN : ChatWriteAi(1, ok)
    \/ \E ok \in BOOLEAN : ChatWriteMood(1, ok)
    \/ \E h \in Headers, c \in ContextTexts :
          UploadPdfContent(1, h, 1, "Quantum Physics", c)
    \/ \E h \in Headers : ClearHistory(1, h, 1, "Quantum Physics")
    \/ \E ok \in BOOLEAN : ClearDeleteChat(1, ok)
    \/ \E ok \in BOOLEAN : ClearDeleteMoods(1, ok)
    \/ \E h \in Headers, k \in {NoLimit, 1} : GetHistory(1, h, 1, "Quantum Physics", k)
    \/ \E h \in Headers : GetMoodLogs(1, h, 1, NoDays)
    \/ \E h \in Headers, u \in BodyUserIds : GetUser(1, h, u)
    \/ Finish(1)

SpecGate == InitChat /\ [][NextGate]_vars

(* ----------------------- the sign-in specification -------------------- *)
\* an empty store at time 0; the clock does not move
InitAuth ==
    /\ variant \in Variants
    /\ apiKey = FALSE
    /\ now = 0
    /\ Users = <<>>
    /\ ChatMessages = <<>>
    /\ MoodLogs = <<>>
    /\ nextId = [chat |-> 1, mood |-> 1, user |-> 1]
    /\ userPdfContext = EmptyMap
    /\ held = {}
    /\ reqs = [s \in Slots |-> Idle]

NextAuth ==
    \/ \E n \in Names, e \in Emails, p \in SignupPasswords : SignupCheck(1, n, e, p)
    \/ \E salt \in Salts : SignupInsert(1, salt)
    \/ \E e \in Emails, p \in Passwords : Login(1, e, p)
    \/ \E h \in Headers, u \in BodyUserIds : GetMoodLogs(1, h, u, NoDays)
    \/ Finish(1)

SpecAuth == InitAuth /\ [][NextAuth]_vars

(* ----------------------- the session specification -------------------- *)
\* Ada is registered and holds no token; the clock moves
InitSession ==
    /\ variant \in Variants
    /\ apiKey = FALSE
    /\ now = 0
    /\ Users = <<Ada>>
    /\ ChatMessages = <<>>
    /\ MoodLogs = <<>>
    /\ nextId = [chat |-> 1, mood |-> 1, user |-> 2]
    /\ userPdfContext = EmptyMap
    /\ held = {}
    /\ reqs = [s \in Slots |-> Idle]

NextSession ==
    \/ SignupCheck(1, "Bob", "bob@x.com", "hunter2")
    \/ SignupInsert(1, "salt1")
    \/ Login(1, "ada@x.com", "secret123")
    \/ \E h \in Headers : GetMoodLogs(1, h, 1, NoDays)
    \/ Tick
    \/ Finish(1)

SpecSession == InitSession /\ [][NextSession]_vars

(* ------------------------ the cache specification --------------------- *)
\* the variants with a context cache, one request at a time
InitCache ==
    /\ InitChat
    /\ HasContextCache(variant)

NextCache ==
    \/ \E h \in {NoHeader, GoodHeader}, u \in BodyUserIds, sj \in CacheSubjects,
          c \in CacheContents : UploadPdfContent(1, h, u, sj, c)
    \/ \E u \in BodyUserIds, sj \in CacheSubjects : ChatStart(1, GoodHeader, u, sj, <<"good">>)
    \/ ChatConnect(1)
    \/ \E o \in {"ok_choice", "network_error"} : ChatProviderReply(1, o, <<"good", "answer">>)
    \/ ChatWriteUser(1, TRUE)
    \/ ChatWriteAi(1, TRUE)
    \/ \E ok \in BOOLEAN : ChatWriteMood(1, ok)
    \/ Finish(1)

SpecCache == InitCache /\ [][NextCache]_vars

(* ------------------------- the race specification -------------------- *)
\* uploads for one (user, subject) in both slots while a chat for that pair
\* is between its awaits
NextRace ==
    \/ \E s \in Slots, c \in RaceContents :
          UploadPdfContent(s, GoodHeader, 1, "Quantum Physics", c)
    \/ ChatStart(1, GoodHeader, 1, "Quantum Physics", <<"good">>)
    \/ ChatConnect(1)
    \/ \E o \in {"ok_choice", "network_error"} : ChatProviderReply(1, o, <<"good", "answer">>)
    \/ ChatWriteUser(1, TRUE)
    \/ ChatWriteAi(1, TRUE)
    \/ \E ok \in BOOLEAN : ChatWriteMood(1, ok)
    \/ \E s \in Slots : Finish(s)

SpecRace == InitCache /\ [][NextRace]_vars

(* ------------------------ the prompt specification -------------------- *)
\* uploads of short and long contexts, then chats that build the request
NextPrompt ==
    \/ \E c \in PromptContents : UploadPdfContent(1, GoodHeader, 1, "Quantum Physics", c)
    \/ \E sj \in {"Quantum Physics", "Molecular Biology"}, m \in ChatMessageTexts :
          ChatStart(1, GoodHeader, 1, sj, m)
    \/ ChatConnect(1)
    \/ \E o \in {"ok_choice", "error_json"} : ChatProviderReply(1, o, <<"good", "answer">>)
    \/ \E ok \in BOOLEAN : ChatWriteUser(1, ok)
    \/ ChatWriteAi(1, TRUE)
    \/ ChatWriteMood(1, TRUE)
    \/ Finish(1)

SpecPrompt == InitChat /\ [][NextPrompt]_vars

(* ----------------------- the sentiment specification ------------------- *)
\* chats over the messages of SentimentTexts: each stores analyzeSentiment(message)
NextSentiment ==
    \/ \E m \in SentimentTexts : ChatStart(1, GoodHeader, 1, "Quantum Physics", m)
    \/ ChatConnect(1)
    \/ ChatProviderReply(1, "ok_choice", <<"good", "answer">>)
    \/ ChatWriteUser(1, TRUE)
    \/ ChatWriteAi(1, TRUE)
    \/ \E ok \in BOOLEAN : ChatWriteMood(1, ok)
    \/ Finish(1)

SpecSentiment == InitChat /\ [][NextSentiment]_vars

(* ------------------------ the history specification ------------------- *)
Bob ==
    [id |-> 2, name |-> "Bob", email |-> "bob@x.com",
     password |-> bcryptHash("hunter2", "salt2"), created_at |-> 0,
     last_login |-> Never]

\* Ada and Bob have just signed up
InitHistory ==
    /\ variant \in Variants
    /\ apiKey = TRUE
    /\ now = 0
    /\ Users = <<Ada, Bob>>
    /\ ChatMessages = <<>>
    /\ MoodLogs = <<>>
    /\ nextId = [chat |-> 1, mood |-> 1, user |-> 3]
    /\ userPdfContext = EmptyMap
    /\ held = {jwtSign(1, 0)}
    /\ reqs = [s \in Slots |-> Idle]

\* two turns of chat, clearing and reading of histories, while time passes
NextHistory ==
    \/ \E pr \in HistoryPairs :
          ChatArrives(MaxHistory, 1, SignupHeader, pr[1], pr[2], <<"good">>)
    \/ ChatConnect(1)
    \/ ChatProviderReply(1, "ok_choice", <<"good", "answer">>)
    \/ ChatWriteUser(1, TRUE)
    \/ ChatWriteAi(1, TRUE)
    \/ ChatWriteMood(1, TRUE)
    \/ ClearHistory(1, SignupHeader, 1, "Quantum Physics")
    \/ ClearDeleteChat(1, TRUE)
    \/ ClearDeleteMoods(1, TRUE)
    \/ \E pr \in HistoryPairs, k \in Limits :
          GetHistory(1, SignupHeader, pr[1], pr[2], k)
    \/ Tick
    \/ Finish(1)

SpecHistory == InitHistory /\ [][NextHistory]_vars

(* --------------------- the clear-history specification ----------------- *)
InitClear == InitHistory /\ HasClearHistory(variant)

\* clear-history requests of one pair in slot 1 while chats of that pair and of
\* another subject run in slot 2
NextClear ==
    \/ ClearHistory(1, SignupHeader, 1, "Quantum Physics")
    \/ \E ok \in BOOLEAN : ClearDeleteChat(1, ok)
    \/ \E ok \in BOOLEAN : ClearDeleteMoods(1, ok)
    \/ \E sj \in {"Quantum Physics", "Molecular Biology"} :
          ChatArrives(MaxHistory, 2, SignupHeader, 1, sj, <<"good">>)
    \/ ChatConnect(2)
    \/ ChatProviderReply(2, "ok_choice", <<"good", "answer">>)
    \/ ChatWriteUser(2, TRUE)
    \/ ChatWriteAi(2, TRUE)
    \/ ChatWriteMood(2, TRUE)
    \/ \E s \in Slots : Finish(s)

SpecClear == InitClear /\ [][NextClear]_vars

(* ----------------------- the mood log specification -------------------- *)
\* chats of Ada and Bob on two subjects while time passes and Ada logs in
\* again; Ada's mood logs are read with and without days
NextMood ==
    \/ \E t \in held, pr \in HistoryPairs :
          ChatArrives(MaxHistory, 1, Bearer(t), pr[1], pr[2], <<"good">>)
    \/ ChatConnect(1)
    \/ ChatProviderReply(1, "ok_choice", <<"good", "answer">>)
    \/ ChatWriteUser(1, TRUE)
    \/ ChatWriteAi(1, TRUE)
    \/ ChatWriteMood(1, TRUE)
    \/ Login(1, "ada@x.com", "secret123")
    \/ \E t \in held, d \in DaysAsked : GetMoodLogs(1, Bearer(t), 1, d)
    \/ Tick
    \/ Finish(1)

SpecMood == InitHistory /\ [][NextMood]_vars

(* ------------------------- the pool specification ---------------------- *)
InitPool == InitChat /\ AcquiresConnection(variant)

\* two chat requests in flight, with every failure of the pool, the provider
\* and the store
NextPool ==
    \/ \E s \in Slots, u \in BodyUserIds :
          ChatStart(s, GoodHeader, u, "Quantum Physics", <<"good">>)
    \/ \E s \in Slots : ChatConnect(s)
    \/ \E s \in Slots : ChatConnectFails(s)
    \/ \E s \in Slots, o \in ProviderOutcomes :
          ChatProviderReply(s, o, <<"good", "answer">>)
    \/ \E s \in Slots, ok \in BOOLEAN : ChatWriteUser(s, ok)
    \/ \E s \in Slots, ok \in BOOLEAN : ChatWriteAi(s, ok)
    \/ \E s \in Slots, ok \in BOOLEAN : ChatWriteMood(s, ok)
    \/ \E s \in Slots : Finish(s)

SpecPool == InitPool /\ [][NextPool]_vars

(* ----------------------- the progress specification -------------------- *)
\* one chat request at a time, with every outcome of the provider and the store
NextLive ==
    \/ \E m \in ChatMessageTexts : ChatStart(1, GoodHeader, 1, "Quantum Physics", m)
    \/ ChatConnect(1)
    \/ \E o \in ProviderOutcomes, c \in ProviderContents : ChatProviderReply(1, o, c)
    \/ \E ok \in BOOLEAN : ChatWriteUser(1, ok)
    \/ \E ok \in BOOLEAN : ChatWriteAi(1, ok)
    \/ \E ok \in BOOLEAN : ChatWriteMood(1, ok)
    \/ Finish(1)

\* the pool and the store settle every operation, and the event loop runs the
\* handler on; nothing in the handlers makes the call to the provider settle
\* (fetch is given no signal and no timer is set)
SpecLive ==
    /\ InitChat
    /\ [][NextLive]_vars
    /\ WF_vars(ChatConnect(1))
    /\ WF_vars(\E ok \in BOOLEAN : ChatWriteUser(1, ok))
    /\ WF_vars(\E ok \in BOOLEAN : ChatWriteAi(1, ok))
    /\ WF_vars(\E ok \in BOOLEAN : ChatWriteMood(1, ok))

(* ------------------------ the signup race specification --------------- *)
\* two signup requests in flight, with complete bodies
NextSignupRace ==
    \/ \E s \in Slots, n \in {"Ada", "Bob"}, e \in {"ada@x.com", "bob@x.com"} :
          SignupCheck(s, n, e, "secret123")
    \/ \E s \in Slots, salt \in Salts : SignupInsert(s, salt)
    \/ \E s \in Slots : Finish(s)

SpecSignupRace == InitAuth /\ [][NextSignupRace]_vars

(* ------------------------ the isolation specification ------------------ *)
\* Ada and Bob, each with a token of their own, send every guarded request
\* with their own and with the other's userId
NextIsolation ==
    \/ \E h \in {SignupHeader, BobHeader}, u \in BodyUserIds :
          \/ ChatStart(1, h, u, "Quantum Physics", <<"good">>)
          \/ UploadPdfContent(1, h, u, "Quantum Physics", <<"notes">>)
          \/ ClearHistory(1, h, u, "Quantum Physics")
          \/ GetHistory(1, h, u, "Quantum Physics", NoLimit)
          \/ GetMoodLogs(1, h, u, NoDays)
          \/ GetUser(1, h, u)
    \/ ChatConnect(1)
    \/ ChatProviderReply(1, "ok_choice", <<"good", "answer">>)
    \/ ChatWriteUser(1, TRUE)
    \/ ChatWriteAi(1, TRUE)
    \/ ChatWriteMood(1, TRUE)
    \/ ClearDeleteChat(1, TRUE)
    \/ ClearDeleteMoods(1, TRUE)
    \/ Finish(1)

SpecIsolation == InitHistory /\ [][NextIsolation]_vars

(* ------------------------- the chat race specification ----------------- *)
\* two chat requests of one (user, subject) in flight
NextChatRace ==
    \/ \E s \in Slots, m \in {<<"good">>, <<"BAD", "why?">>} :
          ChatArrives(MaxHistory, s, SignupHeader, 1, "Quantum Physics", m)
    \/ \E s \in Slots : ChatConnect(s)
    \/ \E s \in Slots : ChatProviderReply(s, "ok_choice", <<"good", "answer">>)
    \/ \E s \in Slots : ChatWriteUser(s, TRUE)
    \/ \E s \in Slots : ChatWriteAi(s, TRUE)
    \/ \E s \in Slots : ChatWriteMood(s, TRUE)
    \/ \E s \in Slots : Finish(s)

SpecChatRace == InitHistory /\ [][NextChatRace]_vars

(* ---------------------- the clear-history frame specification --------- *)
\* two chat turns of three pairs and an upload, then clear-history of one pair
NextFrame ==
    \/ \E pr \in HistoryPairs :
          ChatArrives(MaxHistory, 1, SignupHeader, pr[1], pr[2], <<"good">>)
    \/ ChatConnect(1)
    \/ ChatProviderReply(1, "ok_choice", <<"good", "answer">>)
    \/ ChatWriteUser(1, TRUE)
    \/ ChatWriteAi(1, TRUE)
    \/ ChatWriteMood(1, TRUE)
    \/ UploadPdfContent(1, SignupHeader, 1, "Quantum Physics", <<"notes">>)
    \/ ClearHistory(1, SignupHeader, 1, "Quantum Physics")
    \/ \E ok \in BOOLEAN : ClearDeleteChat(1, ok)
    \/ \E ok \in BOOLEAN : ClearDeleteMoods(1, ok)
    \/ Finish(1)

SpecFrame == InitClear /\ [][NextFrame]_vars

(* ------------------------- properties of POST /api/chat --------------- *)
\* C1: every chat request that passed authentication and subject validation
\* and had no failing storage write ends with a non-empty aiResponse, whatever
\* the provider did (no key, a throw, a non-success status, no choice).
C1_FallbackGuarantee ==
    \A s \in Slots :
        LET r == reqs[s]
        IN (r.kind = "chat" /\ r.pc = "done" /\ r.ran /\ r.res.status # 400
                /\ r.failed = 0)
           => ("aiResponse" \in r.res.fields /\ Truthy(r.res.aiResponse))

\* C2: a provider failure is never answered with an error: the request ends
\* with a success response and the fallback text is the stored 'ai' row.
C2_ProviderFailureMasked ==
    \A s \in Slots :
        LET r == reqs[s]
        IN (r.kind = "chat" /\ r.pc = "done" /\ r.outcome \in ProviderFailures
                /\ r.failed = 0)
           => /\ r.res.status = 200
              /\ \E i \in 1..Len(ChatMessages) :
                    /\ ChatMessages[i].id \in r.rows
                    /\ ChatMessages[i].sender = "ai"
                    /\ ChatMessages[i].text = r.res.aiResponse
                    /\ Truthy(ChatMessages[i].text)

C5_UnknownSubjectRejected ==
    \A s \in Slots :
        LET r == reqs[s]
        IN (r.kind = "chat" /\ r.ran /\ SubjectRow(r.subject) = NoRow)
           => /\ r.calls = 0
              /\ r.rows = {}
              /\ r.moods = {}
              /\ r.pc = "done" => r.res.status = 400

(* ------------------------ properties of the middleware ---------------- *)
\* C6: on every guarded route a request without a bearer token is answered
\* 401, one whose token is malformed, wrongly signed or expired is answered
\* 403, and in both cases the route handler does not run: the step that takes
\* the request answers it with a bare status, returns no row, calls no
\* provider and leaves the durable rows and the context cache as they were.
C6_RejectedBeforeHandler ==
    [][\A s \in Slots :
          LET r == reqs'[s]
              tok == HeaderToken(r.header)
          IN (reqs[s].pc = "idle" /\ r.pc # "idle"
                  /\ r.kind \in {"chat", "upload", "clear", "history", "moodlogs", "user"}
                  /\ (tok = NoToken \/ ~jwtVerify(tok, now)))
             => /\ r.pc = "done"
                /\ r.res = SendStatus(IF tok = NoToken THEN 401 ELSE 403)
                /\ ~r.ran
                /\ r.calls = 0 /\ r.rows = {} /\ r.moods = {}
                /\ UNCHANGED <<durable, userPdfContext>>]_vars

\* a clear-history request with an expired, correctly signed token was
\* answered 403 while rows of its (user, subject) are stored
C6_Witness ==
    \E s \in Slots :
        /\ reqs[s].kind = "clear" /\ reqs[s].pc = "done"
        /\ reqs[s].res.status = 403
        /\ HeaderToken(reqs[s].header).sig = "AUTH_SECRET"
        /\ HeaderToken(reqs[s].header).exp <= now
        /\ Len(ChatMessages) > 0

(* -------------------------- properties of tokens ---------------------- *)
\* C7: a token that signup or login issued at time t carries t; a request that
\* presents it is accepted at every time before t + 24 hours and answered 403
\* at every time after t + 24 hours although its signature is correct, and
\* nothing else (no later signup or login) stops its being accepted.
C7_TokenLifetime ==
    \A s \in Slots :
        LET r == reqs[s]
            tok == HeaderToken(r.header)
        IN /\ (r.kind \in {"signup", "login"} /\ r.pc = "done"
                   /\ r.res.status \in {200, 201})
              => /\ r.res.token.fmt = "jwt" /\ r.res.token.sig = "AUTH_SECRET"
                 /\ r.at <= r.res.token.iat /\ r.res.token.iat <= now
           /\ (r.kind = "moodlogs" /\ r.pc = "done"
                   /\ tok.fmt = "jwt" /\ tok.sig = "AUTH_SECRET")
              => /\ r.at < tok.iat + ExpiresInHours => (r.ran /\ r.res.status = 200)
                 /\ r.at > tok.iat + ExpiresInHours => (~r.ran /\ r.res.status = 403)

\* a token issued by a login is presented more than 24 hours later
C7_Witness ==
    \E s \in Slots :
        /\ reqs[s].kind = "moodlogs" /\ reqs[s].pc = "done"
        /\ HeaderToken(reqs[s].header) \in held
        /\ reqs[s].at > HeaderToken(reqs[s].header).iat + ExpiresInHours
        /\ reqs[s].res.status = 403

C9_ConflictWhateverTheFields ==
    [][\A s \in Slots :
          (reqs[s].pc = "idle" /\ reqs'[s].kind = "signup"
               /\ EmailRegistered(reqs'[s].email))
          => /\ reqs'[s].pc = "done"
             /\ reqs'[s].res.status = 409
             /\ Users' = Users]_vars

\* C9 as amended: a signup whose email is the email of an existing user is
\* answered at once, creates no user row and leaves every user row as it was;
\* the answer is 409 {error}, except that the variant which validates the body
\* first answers 400 {error} when the name or the password is empty or missing.
C9_ConflictOrValidation ==
    [][\A s \in Slots :
          LET r == reqs'[s]
              filled == ~Missing(r.name) /\ ~Missing(r.password)
          IN (reqs[s].pc = "idle" /\ r.kind = "signup" /\ EmailRegistered(r.email))
             => /\ r.pc = "done"
                /\ r.res.fields = {"error"}
                /\ r.res.status = IF variant = VC /\ ~filled THEN 400 ELSE 409
                /\ r.res.token = NoToken
                /\ Users' = Users
                /\ nextId' = nextId]_vars

\* a signup with a registered email and another name and password was
\* answered 409
C9_Witness ==
    \E s \in Slots :
        /\ reqs[s].kind = "signup" /\ reqs[s].pc = "done"
        /\ reqs[s].res.status = 409
        /\ \E i \in 1..Len(Users) :
              /\ Users[i].email = reqs[s].email
              /\ Users[i].name # reqs[s].name
              /\ ~bcryptCompare(reqs[s].password, Users[i].password)

\* C10: a login with a wrong password for an existing email and a login with
\* an email that has no user get the same answer, 401 with the same error
\* body, and neither is sent a token.
C10_SameAnswerForUnknownAndWrong ==
    \A s \in Slots :
        LET r == reqs[s]
            known == EmailRegistered(r.email)
            right == \E salt \in Salts :
                        UserByEmail(r.email).password = bcryptHash(r.password, salt)
        IN (r.kind = "login" /\ r.pc = "done" /\ (~known \/ ~right))
           => r.res = SendError(401, LoginErrorText(401))

(* ------------------------ properties of the user rows ----------------- *)
\* C11: a successful login sets the last-login time of exactly the user it
\* authenticated; a failed login changes no user row; and no step other than
\* a login changes a row of a registered user.
C11_LastLoginOfTheUser ==
    [][\A s \in Slots :
          LET r == reqs'[s]
              step == reqs[s].pc = "idle" /\ r.kind = "login" /\ r.pc = "done"
          IN /\ (step /\ r.res.status = 200)
                => /\ Len(Users') = Len(Users)
                   /\ \A i \in 1..Len(Users) :
                         IF Users[i].id = r.res.userId
                         THEN Users'[i] = [Users[i] EXCEPT !.last_login = now]
                         ELSE Users'[i] = Users[i]
             /\ (step /\ r.res.status # 200) => Users' = Users
             /\ (\A t \in Slots : ~(reqs[t].pc = "idle" /\ reqs'[t].kind = "login"))
                => \A i \in 1..Len(Users) : i <= Len(Users') /\ Users'[i] = Users[i]]_vars

(* ----------------------- properties of the context cache -------------- *)
\* C12: the context of every (user, subject) is empty at the start; an upload
\* that was admitted makes the context of its pair its content and leaves the
\* context of every other pair as it was; no other step changes a context;
\* and a chat request reads the context its pair has at that moment.  So what
\* a chat reads is the content of the last upload for its pair, or empty.
C12_LastUploadIsRead ==
    /\ \A u \in BodyUserIds, sj \in CacheSubjects :
          ~(u \in DOMAIN userPdfContext /\ sj \in DOMAIN userPdfContext[u])
    /\ [][LET ctx(cache, u, sj) ==
                  IF u \in DOMAIN cache
                  THEN (IF sj \in DOMAIN cache[u] THEN cache[u][sj] ELSE <<>>)
                  ELSE <<>>
              uploads(s) ==
                  reqs[s].pc = "idle" /\ reqs'[s].kind = "upload" /\ reqs'[s].ran
          IN /\ \A u \in BodyUserIds, sj \in CacheSubjects :
                   IF \E s \in Slots : uploads(s) /\ reqs'[s].userId = u
                                          /\ reqs'[s].subject = sj
                   THEN \E s \in Slots :
                           /\ uploads(s)
                           /\ ctx(userPdfContext', u, sj) = reqs'[s].content
                   ELSE ctx(userPdfContext', u, sj) = ctx(userPdfContext, u, sj)
             /\ \A s \in Slots :
                   (reqs[s].pc \in {"idle", "connect"} /\ reqs'[s].kind = "chat"
                        /\ reqs'[s].pc \in {"fetch", "write1"})
                   => reqs'[s].pdfContext =
                         ctx(userPdfContext, reqs'[s].userId, reqs'[s].subject)]_vars

\* a chat read the content uploaded for its pair while another subject of the
\* same user holds another content
C12_Witness ==
    \E s \in Slots :
        /\ reqs[s].kind = "chat" /\ reqs[s].pc = "write1"
        /\ reqs[s].userId = 1 /\ reqs[s].subject = "Astrology"
        /\ reqs[s].pdfContext = <<"other", "notes">>
        /\ CachedContext(1, "Quantum Physics") = <<"notes">>
        /\ CachedContext(2, "Astrology") = <<>>

\* C13: when uploads for one (user, subject) interleave with each other and
\* with a chat request, every upload leaves in the cache exactly its own
\* content (the upload that wrote last wins), no other step changes the cache
\* or the context a request in progress has read, and what a chat reads is
\* empty or the whole content of one upload, never a mix of two.
C13_LastWriteWinsNoMix ==
    [][/\ \A s \in Slots :
             (reqs[s].pc = "idle" /\ reqs'[s].kind = "upload" /\ reqs'[s].ran)
             => /\ userPdfContext'[reqs'[s].userId][reqs'[s].subject] = reqs'[s].content
                /\ \A t \in Slots \ {s} : reqs'[t] = reqs[t]
       /\ (\A s \in Slots : ~(reqs[s].pc = "idle" /\ reqs'[s].kind = "upload"))
             => userPdfContext' = userPdfContext
       /\ \A s \in Slots :
             (reqs'[s].kind = "chat" /\ reqs'[s].pc \notin {"idle", "connect"})
             => /\ reqs'[s].pdfContext \in {<<>>} \cup RaceContents
                /\ reqs[s].pc \notin {"idle", "connect"}
                      => reqs'[s].pdfContext = reqs[s].pdfContext]_vars

\* a chat still waits for the provider with the content of the first upload
\* while a later upload has replaced it in the cache
C13_Witness ==
    /\ reqs[1].kind = "chat" /\ reqs[1].pc = "fetch"
    /\ reqs[1].pdfContext = <<"notes">>
    /\ reqs[2].kind = "upload" /\ reqs[2].pc = "done"
    /\ reqs[2].content = <<"other", "notes">>
    /\ CachedContext(1, "Quantum Physics") = <<"other", "notes">>

\* C14: the completion request of a chat has a system turn that names the
\* subject and one user turn; with a non-empty cached context the user turn is
\* a label, the first 1500 characters of the context, a separator and the
\* literal message; otherwise it is the message alone.
C14_CompletionRequest ==
    \A s \in Slots :
        LET r == reqs[s]
            ctx == r.pdfContext
            user == r.prompt.user
            n == Len(user)
            m == Len(r.message)
            ex == SubSeq(user, 2, n - m - 1)
        IN (r.kind = "chat" /\ r.calls > 0)
           => /\ \E i \in 1..Len(r.prompt.system) : r.prompt.system[i] = r.subject
              /\ IF Truthy(ctx)
                 THEN /\ n >= m + 2
                      /\ SubSeq(user, n - m + 1, n) = r.message
                      /\ CharLen(ex) = Min(ContextChars, CharLen(ctx))
                      /\ Len(ex) <= Len(ctx)
                      /\ \A j \in 1..Len(ex) :
                            \/ ex[j] = ctx[j]
                            \/ j = Len(ex) /\ PartLen(ex[j]) < PartLen(ctx[j])
                 ELSE user = r.message

\* a request was built from a cached context of more than 1500 characters
C14_Witness ==
    \E s \in Slots :
        /\ reqs[s].kind = "chat" /\ reqs[s].pc = "fetch"
        /\ CharLen(reqs[s].pdfContext) > ContextChars
        /\ Truthy(reqs[s].message)
        /\ Len(reqs[s].prompt.user) > Len(reqs[s].message)

\* C15: for every text the score is within [-1, 1] and the magnitude within
\* [0, 1] (in hundredths), and a text without polarity words, the empty text
\* included, has score 0 and magnitude 0.
C15_SentimentRange ==
    \A i \in 1..Len(MoodLogs) :
        LET row == MoodLogs[i]
            words == Flatten([j \in 1..Len(row.message) |->
                                 WordRuns(ToLower(row.message[j]))])
            polar == {j \in 1..Len(words) :
                         words[j] \in positiveWords(variant) \cup negativeWords(variant)}
        IN /\ -100 <= row.score /\ row.score <= 100
           /\ 0 <= row.magnitude /\ row.magnitude <= 100
           /\ polar = {} => (row.score = 0 /\ row.magnitude = 0)

\* C16: with p positive and n negative tokens the score is clamp(0.1 (p - n))
\* and the magnitude min(1, 0.1 (p + n)) (in hundredths); other tokens add nothing.
C16_SentimentFormula ==
    \A i \in 1..Len(MoodLogs) :
        LET row == MoodLogs[i]
            ws == Tokens(variant, row.message)
            p == Cardinality({j \in 1..Len(ws) : ws[j] \in positiveWords(variant)})
            n == Cardinality({j \in 1..Len(ws) : ws[j] \in negativeWords(variant)})
            d == 10 * (p - n)
        IN /\ row.score = (IF d > 100 THEN 100 ELSE IF d < -100 THEN -100 ELSE d)
           /\ row.magnitude = (IF 10 * (p + n) > 100 THEN 100 ELSE 10 * (p + n))

C18_MostRecentK ==
    \A s \in Slots :
        LET r == reqs[s]
            rows == r.res.rows
            all == {row \in Range(ChatMessages) :
                       row.userId = r.userId /\ RowSubject(row) = r.subject}
            total == Cardinality(all)
        IN (r.kind = "history" /\ r.pc = "done" /\ r.res.status = 200)
           => /\ Len(rows) = (IF r.limit = NoLimit \/ r.limit > total
                              THEN total ELSE r.limit)
              /\ Range(rows) \subseteq all
              /\ \A row \in all \ Range(rows), i \in 1..Len(rows) :
                    row.timestamp <= rows[i].timestamp
              /\ \A i, j \in 1..Len(rows) :
                    i < j => rows[i].timestamp <= rows[j].timestamp

\* C19: when a clear-history request that met no chat request of its pair is
\* answered with success, the history of the pair is empty and no MoodLogs row
\* of the pair is left; a delete on a pair without rows changes nothing, and a
\* clear-history request none of whose deletes failed is answered with success.
C19_ClearedAndIdempotent ==
    [][\A s \in Slots :
          LET r == reqs[s]
              mine(rows) == {i \in 1..Len(rows) : OfPair(rows[i], r.userId, r.subject)}
          IN (r.kind = "clear" /\ r.pc \in {"delete1", "delete2"} /\ reqs'[s].pc # r.pc)
             => /\ (reqs'[s].res.status = 200 /\ ~reqs'[s].overlap)
                   => /\ HistoryRows(r.userId, r.subject)' = {}
                      /\ mine(ChatMessages') = {}
                      /\ mine(MoodLogs') = {}
                /\ (mine(ChatMessages) = {} /\ mine(MoodLogs) = {})
                   => UNCHANGED durable
                /\ (reqs'[s].pc = "done" /\ reqs'[s].failed = 0)
                   => reqs'[s].res = SendMessage]_vars

\* a clear-history request that met no chat was answered with success after a
\* chat turn had been stored, and no row is left
C19_Witness ==
    \E s \in Slots :
        /\ reqs[s].kind = "clear" /\ reqs[s].pc = "done"
        /\ reqs[s].res.status = 200 /\ ~reqs[s].overlap
        /\ nextId.chat > 1 /\ nextId.mood > 1
        /\ ChatMessages = <<>> /\ MoodLogs = <<>>

\* C20: the mood logs answered are the MoodLogs rows of the user, of every
\* subject, newest first: with days, exactly the rows not older than days days
\* (24 hours each); without days, all of the user's rows.
C20_MoodLogsOfTheUser ==
    \A s \in Slots :
        LET r == reqs[s]
            rows == r.res.rows
            asked == {row \in Range(MoodLogs) :
                         /\ row.userId = r.userId
                         /\ r.days # NoDays => row.timestamp >= r.at - 24 * r.days}
        IN (r.kind = "moodlogs" /\ r.pc = "done" /\ r.res.status = 200)
           => /\ Range(rows) = asked
              /\ Len(rows) = Cardinality(asked)
              /\ \A i, j \in 1..Len(rows) :
                    i < j => rows[i].timestamp >= rows[j].timestamp

(* ----------------------- properties of the chat turn ------------------- *)
\* C21: a chat request holds its pool connection until it ends and has released
\* it exactly once when it has ended, whatever the path; a request that got no
\* connection releases none; with every request ended no connection is out,
\* and never more than the pool's limit are out.
C21_ReleasedExactlyOnce ==
    /\ \A s \in Slots :
          LET r == reqs[s]
          IN r.kind = "chat"
             => /\ r.pc = "done" => r.released = (IF r.conn THEN 1 ELSE 0)
                /\ r.pc # "done" => r.released = 0
    /\ (\A s \in Slots : reqs[s].pc \in {"idle", "done"}) => PoolHeld = 0
    /\ PoolHeld <= connectionLimit

\* a chat request that held a connection ended with an error after a row of
\* its turn was stored, while another request holds a connection
C21_Witness ==
    \E s, s2 \in Slots :
        /\ reqs[s].kind = "chat" /\ reqs[s].pc = "done"
        /\ reqs[s].conn /\ reqs[s].res.status = 500 /\ reqs[s].rows # {}
        /\ reqs[s2].conn /\ reqs[s2].pc = "fetch"

\* C22: every chat request that the handler took up is answered in the end,
\* also when the provider never answers.
C22_EveryChatAnswered ==
    (reqs[1].kind = "chat" /\ reqs[1].pc # "done") ~> (reqs[1].pc = "done")

\* C23: a chat request calls the provider at most once, goes on to store the
\* fallback text at once when the call failed, and calls it not at all when
\* no credential of the provider is configured.
C23_SingleAttempt ==
    \A s \in Slots :
        LET r == reqs[s]
        IN r.kind = "chat"
           => /\ r.calls <= 1
              /\ ~apiKey => r.calls = 0
              /\ (r.calls = 1 /\ r.outcome \in ProviderFailures
                     /\ r.pc \in {"write1", "write2", "write3"})
                 => Truthy(r.aiResponse)

\* C24: every ChatMessages row and every MoodLogs row is of a user that exists
\* and of a subject of the reference list, and a chat request whose userId is
\* of no user adds no row.
C24_RowsReferToUserAndSubject ==
    /\ \A row \in Range(ChatMessages) \cup Range(MoodLogs) :
          /\ row.userId \in UserIds
          /\ SubjectRow(RowSubject(row)) # NoRow
    /\ \A s \in Slots :
          (reqs[s].kind = "chat" /\ reqs[s].userId \notin UserIds)
          => (reqs[s].rows = {} /\ reqs[s].moods = {})

\* C25: a chat request that was answered with an error has left no row of its
\* turn, and while no chat request is in progress every (user, subject) has as
\* many 'user' rows as 'ai' rows as MoodLogs rows.
C25_TurnAllOrNothing ==
    LET of(rows, u, sj) == {i \in 1..Len(rows) :
                               rows[i].userId = u /\ RowSubject(rows[i]) = sj}
        sent(u, sj, who) == {i \in of(ChatMessages, u, sj) : ChatMessages[i].sender = who}
    IN /\ \A s \in Slots :
             (reqs[s].kind = "chat" /\ reqs[s].pc = "done" /\ reqs[s].res.status # 200)
             => (reqs[s].rows = {} /\ reqs[s].moods = {})
       /\ (\A s \in Slots : reqs[s].kind = "chat" => reqs[s].pc = "done")
          => \A u \in BodyUserIds, sj \in ChatSubjects :
                /\ Cardinality(sent(u, sj, "user")) = Cardinality(sent(u, sj, "ai"))
                /\ Cardinality(sent(u, sj, "user")) = Cardinality(of(MoodLogs, u, sj))

\* C26: the 'user' row of a turn is stored before its 'ai' row (the next id)
\* with a timestamp that is not later, and a history that was answered lists
\* the 'user' row of a turn before the 'ai' row of that turn.
C26_UserBeforeAi ==
    /\ \A i \in 1..Len(ChatMessages) :
          ChatMessages[i].sender = "ai"
          => \E j \in 1..(i - 1) :
                /\ ChatMessages[j].sender = "user"
                /\ ChatMessages[j].id = ChatMessages[i].id - 1
                /\ ChatMessages[j].timestamp <= ChatMessages[i].timestamp
    /\ \A s \in Slots :
          LET rows == reqs[s].res.rows
          IN (reqs[s].kind = "history" /\ reqs[s].pc = "done" /\ reqs[s].res.status = 200)
             => \A i, j \in 1..Len(rows) :
                   (rows[i].sender = "ai" /\ rows[j].sender = "user"
                       /\ rows[j].id = rows[i].id - 1)
                   => j < i

\* C27: no two user rows have the same email, and of two signup requests for
\* one email of which one was answered 201 the other is answered 409, also
\* when both looked the email up before either inserted.
C27_OneCreatedOtherConflict ==
    /\ \A i, j \in 1..Len(Users) : i # j => Users[i].email # Users[j].email
    /\ \A s, s2 \in Slots :
          (/\ s # s2
           /\ reqs[s].kind = "signup" /\ reqs[s].pc = "done"
           /\ reqs[s2].kind = "signup" /\ reqs[s2].pc = "done"
           /\ reqs[s].email = reqs[s2].email
           /\ reqs[s].res.status = 201)
          => reqs[s2].res.status = 409

\* C28: a request whose userId is not the userId of its token returns no row
\* of that other user and leaves the other user's ChatMessages rows, MoodLogs
\* rows and cached contexts as they are.
C28_OnlyOwnData ==
    [][\A s \in Slots :
          LET r == reqs'[s]
              u == r.userId
          IN (/\ reqs'[s] # reqs[s]
              /\ r.kind \in {"chat", "upload", "clear", "history", "moodlogs", "user"}
              /\ r.ran
              /\ HeaderToken(r.header).userId # u)
             => /\ SelectSeq(ChatMessages', LAMBDA row : row.userId = u)
                      = SelectSeq(ChatMessages, LAMBDA row : row.userId = u)
                /\ SelectSeq(MoodLogs', LAMBDA row : row.userId = u)
                      = SelectSeq(MoodLogs, LAMBDA row : row.userId = u)
                /\ (u \in DOMAIN userPdfContext') = (u \in DOMAIN userPdfContext)
                /\ u \in DOMAIN userPdfContext => userPdfContext'[u] = userPdfContext[u]
                /\ r.kind \in {"history", "moodlogs", "user"} => r.res.rows = <<>>]_vars

\* C29: in the stored history of a pair every 'user' row that is not the last
\* row is directly followed by an 'ai' row, and the two rows a chat request
\* has stored are next to each other.
C29_CompleteTurnsInOrder ==
    /\ \A i \in 1..(Len(ChatMessages) - 1) :
          ChatMessages[i].sender = "user" => ChatMessages[i + 1].sender = "ai"
    /\ \A s \in Slots :
          \A a, b \in reqs[s].rows : (reqs[s].kind = "chat" /\ a < b) => b = a + 1

\* C30: no step of a clear-history request changes a ChatMessages or MoodLogs
\* row of another user or of another subject of its user, a user row, or the
\* context cache, the cached context of the cleared pair included.
C30_ClearHistoryFrame ==
    [][\A s \in Slots :
          LET r == reqs'[s]
              others(rows) == SelectSeq(rows,
                                  LAMBDA row : ~OfPair(row, r.userId, r.subject))
          IN (r.kind = "clear" /\ reqs'[s] # reqs[s])
             => /\ others(ChatMessages') = others(ChatMessages)
                /\ others(MoodLogs') = others(MoodLogs)
                /\ UNCHANGED <<Users, userPdfContext>>]_vars

\* a clear-history request was answered with success after it deleted the rows
\* of its pair, while rows of another pair and the cached context of the
\* cleared pair are there
C30_Witness ==
    \E s \in Slots :
        /\ reqs[s].kind = "clear" /\ reqs[s].pc = "done" /\ reqs[s].res.status = 200
        /\ nextId.chat = 5
        /\ Len(ChatMessages) = 2 /\ Len(MoodLogs) = 1
        /\ CachedContext(reqs[s].userId, reqs[s].subject) = <<"notes">>

Spec == SpecChat

====
